---- MODULE Spec2Model ----
(***************************************************************************)
(* Model of the session state machine of Frontend/src/App.jsx: the React   *)
(* state of the App component, its event handlers, the two fetch requests  *)
(* they issue and the continuations that run when a request settles.       *)
(*                                                                         *)
(* JavaScript values are tagged records.  A string is a sequence of        *)
(* symbols (a symbol is a character group or a literal of the source), so  *)
(* that startsWith, includes and template literals are computed; labels    *)
(* that the source lower-cases or compares are spelled character by        *)
(* character.  An object is an ordered sequence of key/value entries.      *)
(***************************************************************************)
EXTENDS Bags, FiniteSets, Integers, Sequences, TLC

VARIABLES loading, ragLoading, file, previewUrl, error, analyzeResult,
          ragResult, objectUrls, analyzeInFlight, ragInFlight, lastOp

vars == <<loading, ragLoading, file, previewUrl, error, analyzeResult,
          ragResult, objectUrls, analyzeInFlight, ragInFlight, lastOp>>

(***************************************************************************)
(* Bounds of the model.                                                    *)
(***************************************************************************)
\* object URLs URL.createObjectURL may hand out in one session
MaxUrls == 3
\* requests of one kind that may be awaiting their response at once
MaxInFlight == 2

(***************************************************************************)
(* JavaScript values.                                                      *)
(***************************************************************************)
Null == [t |-> "null"]
Undefined == [t |-> "undefined"]
Str(symbols) == [t |-> "str", v |-> symbols]
Num(n) == [t |-> "num", v |-> n]
Obj(entries) == [t |-> "obj", e |-> entries]
Entry(key, value) == [k |-> key, v |-> value]

\* ToBoolean: what `!x`, `x || y` and `x && y` test
Truthy(x) ==
    CASE x.t = "null" -> FALSE
      [] x.t = "undefined" -> FALSE
      [] x.t = "str" -> x.v # <<>>
      [] x.t = "num" -> x.v # 0
      [] OTHER -> TRUE

\* a || b
OrElse(a, b) == IF Truthy(a) THEN a ELSE b

\* o?.key : undefined on null/undefined and on a missing key
OptGet(o, key) ==
    IF o.t = "obj" /\ \E i \in 1..Len(o.e) : o.e[i].k = key
    THEN o.e[CHOOSE i \in 1..Len(o.e) :
                 o.e[i].k = key /\ \A j \in 1..Len(o.e) : o.e[j].k = key => j <= i].v
    ELSE Undefined

\* o.key throws a TypeError when o is null or undefined
GetThrows(o) == o.t \in {"null", "undefined"}

\* String.prototype.startsWith
StartsWith(s, prefix) ==
    /\ Len(s.v) >= Len(prefix.v)
    /\ SubSeq(s.v, 1, Len(prefix.v)) = prefix.v

\* String.prototype.includes
Includes(s, part) ==
    \E i \in 0..(Len(s.v) - Len(part.v)) :
        SubSeq(s.v, i + 1, i + Len(part.v)) = part.v

\* template literal / string concatenation
Concat(a, b) == Str(a.v \o b.v)

\* `${x}` of a string or a number
Interpolate(x) == IF x.t = "num" THEN Str(<<ToString(x.v)>>) ELSE x

(***************************************************************************)
(* Files the drop widget can hand to onFileSelect.                         *)
(***************************************************************************)
File(name, type) == [t |-> "file", name |-> name, type |-> Str(type)]

LeafPng == File("leaf.png", <<"image", "/", "png">>)
LeafJpg == File("leaf.jpg", <<"image", "/", "jpeg">>)
NotesTxt == File("notes.txt", <<"text", "/", "plain">>)
NoType == File("leaf", <<>>)
ImageDir == File("image", <<"image">>)

Candidates == {Null, LeafPng, LeafJpg, NotesTxt, NoType, ImageDir}

(***************************************************************************)
(* Notices of the source.  The two emoji are the symbols U+274C (cross     *)
(* mark) and U+2705 (check mark).                                          *)
(***************************************************************************)
Cross == Str(<<"U+274C">>)
Check == Str(<<"U+2705">>)
MsgImageUpdated == Str(<<"U+2705", " Image updated successfully!">>)
MsgInvalidFile == Str(<<"U+274C", " Please select a valid image file">>)
MsgNoPreview == Str(<<"U+274C", " No image selected to preview">>)
MsgNoImage == Str(<<"U+274C", " Please select or drop an image">>)
MsgNoAnalysis == Str(<<"U+274C", " No analysis data available to fetch more details">>)

\* className of the notice element: error.includes(check mark)
IsSuccessNotice(e) == Truthy(e) /\ Includes(e, Check)
IsErrorNotice(e) == Truthy(e) /\ ~Includes(e, Check)

(***************************************************************************)
(* Responses of the two endpoints.  A request settles with a response      *)
(* (status and parsed JSON body) or rejects: fetch rejects on a transport  *)
(* failure and res.json() rejects on a body that is not JSON.              *)
(***************************************************************************)
Response(status, body) == [kind |-> "response", status |-> status, body |-> body]
Rejection(message) == [kind |-> "reject", message |-> Str(message)]

\* res.ok
Ok(res) == res.status \in 200..299

ResultRust ==
    Obj(<<Entry("disease_classification",
                Obj(<<Entry("predicted_class", Str(<<"R", "u", "s", "t">>))>>)),
          Entry("disease_segmentation",
                Obj(<<Entry("severity", Num(35)),
                      Entry("classification",
                            Str(<<"M", "o", "d", "e", "r", "a", "t", "e">>))>>))>>)
ResultBare == Obj(<<Entry("disease_classification", Obj(<<>>))>>)
BodyBadImage == Obj(<<Entry("error", Str(<<"bad image">>))>>)
BodyEmpty == Obj(<<>>)

AnalyzeOutcomes ==
    { Response(200, ResultRust), Response(200, ResultBare),
      Response(500, BodyBadImage), Response(500, BodyEmpty),
      Response(404, Null),
      Rejection(<<"Failed to fetch">>) }

DetailMessage == Obj(<<Entry("message", Str(<<"Rust is a fungal disease">>))>>)
DetailAnswer == Obj(<<Entry("answer", Str(<<"Remove infected leaves">>))>>)
BodyOverloaded == Obj(<<Entry("error", Str(<<"overloaded">>))>>)

RagOutcomes ==
    { Response(200, DetailMessage), Response(200, DetailAnswer),
      Response(200, BodyEmpty),
      Response(503, BodyOverloaded), Response(500, BodyEmpty),
      Rejection(<<"Unexpected token < in JSON">>) }

\* message of the TypeError thrown by data.error on a null body
TypeErrorMessage == Str(<<"Cannot read properties of null (reading 'error')">>)

(***************************************************************************)
(* The React state of App and its setters.  A handler is the composition   *)
(* of its setter calls in source order; the last call on a slot wins.      *)
(***************************************************************************)
State ==
    [loading |-> loading, ragLoading |-> ragLoading, file |-> file,
     previewUrl |-> previewUrl, error |-> error,
     analyzeResult |-> analyzeResult, ragResult |-> ragResult]

setLoading(s, v) == [s EXCEPT !.loading = v]
setRagLoading(s, v) == [s EXCEPT !.ragLoading = v]
setFile(s, v) == [s EXCEPT !.file = v]
setPreviewUrl(s, v) == [s EXCEPT !.previewUrl = v]
setError(s, v) == [s EXCEPT !.error = v]
setAnalyzeResult(s, v) == [s EXCEPT !.analyzeResult = v]
setRagResult(s, v) == [s EXCEPT !.ragResult = v]

\* the next render sees the state the handler left
Render(s) ==
    /\ loading' = s.loading
    /\ ragLoading' = s.ragLoading
    /\ file' = s.file
    /\ previewUrl' = s.previewUrl
    /\ error' = s.error
    /\ analyzeResult' = s.analyzeResult
    /\ ragResult' = s.ragResult

Op(name, branch, arg) == [op |-> name, branch |-> branch, arg |-> arg]

\* URL.createObjectURL: a URL that is not in the blob URL store
createObjectURL(store) == Str(<<"blob:", ToString(Cardinality(store) + 1)>>)

resetState(s) == setRagResult(setAnalyzeResult(setError(s, Null), Null), Null)

\* selectedFile?.type.startsWith("image/")
IsImage(selectedFile) ==
    /\ selectedFile.t = "file"
    /\ StartsWith(selectedFile.type, Str(<<"image", "/">>))

\* variant: the image branch does not call resetState
handleImageFileState_KeepsResults(s, selectedFile, url) ==
    IF IsImage(selectedFile)
    THEN setError(setPreviewUrl(setFile(s, selectedFile), url), MsgImageUpdated)
    ELSE resetState(setPreviewUrl(setFile(setError(s, MsgInvalidFile), Null), Null))

handleImageFileState(s, selectedFile, url) ==
    IF IsImage(selectedFile)
    THEN setError(resetState(setPreviewUrl(setFile(s, selectedFile), url)),
                  MsgImageUpdated)
    ELSE resetState(setPreviewUrl(setFile(setError(s, MsgInvalidFile), Null), Null))

handleImageFile(selectedFile) ==
    /\ IsImage(selectedFile) => Cardinality(objectUrls) < MaxUrls
    /\ Render(handleImageFileState(State, selectedFile, createObjectURL(objectUrls)))
    /\ objectUrls' = IF IsImage(selectedFile)
                     THEN objectUrls \cup {createObjectURL(objectUrls)}
                     ELSE objectUrls
    /\ lastOp' = Op("handleImageFile",
                    IF IsImage(selectedFile) THEN "image" ELSE "invalid",
                    selectedFile)
    /\ UNCHANGED <<analyzeInFlight, ragInFlight>>

handlePreviewClick ==
    /\ Render(IF Truthy(file) THEN State ELSE setError(State, MsgNoPreview))
    /\ lastOp' = Op("handlePreviewClick",
                    IF Truthy(file) THEN "window" ELSE "nofile", Null)
    /\ UNCHANGED <<objectUrls, analyzeInFlight, ragInFlight>>

(***************************************************************************)
(* analyze: handleSendClick up to its await, and its continuation.         *)
(***************************************************************************)
\* the multipart body: formData.append("file", file)
FormData(f) == [field |-> "file", value |-> f]

\* variant: no early return on a missing file
handleSendClick_NoGuard ==
    /\ BagCardinality(analyzeInFlight) < MaxInFlight
    /\ Render(setLoading(State, TRUE))
    /\ analyzeInFlight' = analyzeInFlight (+) SetToBag({FormData(file)})
    /\ lastOp' = Op("handleSendClick", "fetch", FormData(file))
    /\ UNCHANGED <<objectUrls, ragInFlight>>

handleSendClick ==
    IF ~Truthy(file)
    THEN /\ Render(setError(State, MsgNoImage))
         /\ lastOp' = Op("handleSendClick", "nofile", Null)
         /\ UNCHANGED <<objectUrls, analyzeInFlight, ragInFlight>>
    ELSE /\ BagCardinality(analyzeInFlight) < MaxInFlight
         /\ Render(setLoading(State, TRUE))
         /\ analyzeInFlight' = analyzeInFlight (+) SetToBag({FormData(file)})
         /\ lastOp' = Op("handleSendClick", "fetch", FormData(file))
         /\ UNCHANGED <<objectUrls, ragInFlight>>

\* `... Analyze API error: ${data.error || "Failed to process image"} (Status: ${res.status})`
AnalyzeApiError(res) ==
    Concat(Str(<<"U+274C", " Analyze API error: ">>),
      Concat(Interpolate(OrElse(OptGet(res.body, "error"),
                                Str(<<"Failed to process image">>))),
        Concat(Str(<<" (Status: ">>),
          Concat(Interpolate(Num(res.status)), Str(<<")">>)))))

\* `... Error uploading image: ${err.message}`
UploadError(message) == Concat(Str(<<"U+274C", " Error uploading image: ">>), message)

\* variant: a failed request also calls setAnalyzeResult(null)
handleSendClickState_ClearsOnFailure(s, outcome) ==
    setLoading(
        IF outcome.kind = "reject"
        THEN setAnalyzeResult(setError(s, UploadError(outcome.message)), Null)
        ELSE IF Ok(outcome)
        THEN setRagResult(setError(setAnalyzeResult(s, outcome.body), Null), Null)
        ELSE IF GetThrows(outcome.body)
        THEN setAnalyzeResult(setError(s, UploadError(TypeErrorMessage)), Null)
        ELSE setAnalyzeResult(setError(s, AnalyzeApiError(outcome)), Null),
        FALSE)

\* variant: setLoading(false) at the end of the try block instead of in finally
handleSendClickState_NoFinally(s, outcome) ==
    IF outcome.kind = "reject"
    THEN setError(s, UploadError(outcome.message))
    ELSE IF Ok(outcome)
    THEN setLoading(setRagResult(setError(setAnalyzeResult(s, outcome.body), Null), Null),
                    FALSE)
    ELSE IF GetThrows(outcome.body)
    THEN setError(s, UploadError(TypeErrorMessage))
    ELSE setLoading(setError(s, AnalyzeApiError(outcome)), FALSE)

\* variant: the success branch does not call setRagResult(null)
handleSendClickState_KeepsDetail(s, outcome) ==
    setLoading(
        IF outcome.kind = "reject"
        THEN setError(s, UploadError(outcome.message))
        ELSE IF Ok(outcome)
        THEN setError(setAnalyzeResult(s, outcome.body), Null)
        ELSE IF GetThrows(outcome.body)
        THEN setError(s, UploadError(TypeErrorMessage))
        ELSE setError(s, AnalyzeApiError(outcome)),
        FALSE)

\* the try / catch / finally of handleSendClick once fetch has settled
handleSendClickState(s, outcome) ==
    setLoading(
        IF outcome.kind = "reject"
        THEN setError(s, UploadError(outcome.message))
        ELSE IF Ok(outcome)
        THEN setRagResult(setError(setAnalyzeResult(s, outcome.body), Null), Null)
        ELSE IF GetThrows(outcome.body)
        THEN setError(s, UploadError(TypeErrorMessage))
        ELSE setError(s, AnalyzeApiError(outcome)),
        FALSE)

AnalyzeBranch(outcome) ==
    IF outcome.kind = "reject" THEN "catch"
    ELSE IF Ok(outcome) THEN "ok"
    ELSE IF GetThrows(outcome.body) THEN "catch"
    ELSE "status"

handleSendClickSettled(request, outcome) ==
    /\ BagIn(request, analyzeInFlight)
    /\ analyzeInFlight' = analyzeInFlight (-) SetToBag({request})
    /\ Render(handleSendClickState(State, outcome))
    /\ lastOp' = Op("handleSendClickSettled", AnalyzeBranch(outcome), outcome)
    /\ UNCHANGED <<objectUrls, ragInFlight>>

(***************************************************************************)
(* requestDetail: handleSeeMoreClick up to its await, and its continuation.*)
(***************************************************************************)
Instruction ==
    Str(<<"Tell me about this disease and also provide prevention methods for this severity level.">>)

\* the literal "Unknown"
Unknown == Str(<<"U", "n", "k", "n", "o", "w", "n">>)

\* variant: severity_class is read from the severity field
Payload_SeverityClassFromSeverity(result) ==
    Obj(<<Entry("messages", Obj(<<Entry("0", Obj(<<Entry("content", Instruction)>>))>>)),
          Entry("predicted_class",
                OrElse(OptGet(OptGet(result, "disease_classification"), "predicted_class"),
                       Unknown)),
          Entry("severity",
                OrElse(OptGet(OptGet(result, "disease_segmentation"), "severity"),
                       Num(0))),
          Entry("severity_class",
                OrElse(OptGet(OptGet(result, "disease_segmentation"), "severity"),
                       Unknown))>>)

Payload(result) ==
    Obj(<<Entry("messages", Obj(<<Entry("0", Obj(<<Entry("content", Instruction)>>))>>)),
          Entry("predicted_class",
                OrElse(OptGet(OptGet(result, "disease_classification"), "predicted_class"),
                       Unknown)),
          Entry("severity",
                OrElse(OptGet(OptGet(result, "disease_segmentation"), "severity"),
                       Num(0))),
          Entry("severity_class",
                OrElse(OptGet(OptGet(result, "disease_segmentation"), "classification"),
                       Unknown))>>)

\* variant: no early return on a missing analysis result
handleSeeMoreClick_NoGuard ==
    /\ BagCardinality(ragInFlight) < MaxInFlight
    /\ Render(setRagLoading(State, TRUE))
    /\ ragInFlight' = ragInFlight (+) SetToBag({Payload(analyzeResult)})
    /\ lastOp' = Op("handleSeeMoreClick", "fetch", Payload(analyzeResult))
    /\ UNCHANGED <<objectUrls, analyzeInFlight>>

handleSeeMoreClick ==
    IF ~Truthy(analyzeResult)
    THEN /\ Render(setError(State, MsgNoAnalysis))
         /\ lastOp' = Op("handleSeeMoreClick", "noresult", Null)
         /\ UNCHANGED <<objectUrls, analyzeInFlight, ragInFlight>>
    ELSE /\ BagCardinality(ragInFlight) < MaxInFlight
         /\ Render(setRagLoading(State, TRUE))
         /\ ragInFlight' = ragInFlight (+) SetToBag({Payload(analyzeResult)})
         /\ lastOp' = Op("handleSeeMoreClick", "fetch", Payload(analyzeResult))
         /\ UNCHANGED <<objectUrls, analyzeInFlight>>

\* `... RAG API error: ${data.error || "Failed to get RAG output"} (Status: ${res.status})`
RagApiError(res) ==
    Concat(Str(<<"U+274C", " RAG API error: ">>),
      Concat(Interpolate(OrElse(OptGet(res.body, "error"),
                                Str(<<"Failed to get RAG output">>))),
        Concat(Str(<<" (Status: ">>),
          Concat(Interpolate(Num(res.status)), Str(<<")">>)))))

\* `... Error fetching RAG data: ${err.message}`
RagFetchError(message) == Concat(Str(<<"U+274C", " Error fetching RAG data: ">>), message)

\* variant: a failed request calls resetState before setting the notice
handleSeeMoreClickState_ResetsOnFailure(s, outcome) ==
    setRagLoading(
        IF outcome.kind = "reject"
        THEN setError(resetState(s), RagFetchError(outcome.message))
        ELSE IF Ok(outcome)
        THEN setError(setRagResult(s, outcome.body), Null)
        ELSE IF GetThrows(outcome.body)
        THEN setError(resetState(s), RagFetchError(TypeErrorMessage))
        ELSE setError(resetState(s), RagApiError(outcome)),
        FALSE)

\* the try / catch / finally of handleSeeMoreClick once fetch has settled
handleSeeMoreClickState(s, outcome) ==
    setRagLoading(
        IF outcome.kind = "reject"
        THEN setError(s, RagFetchError(outcome.message))
        ELSE IF Ok(outcome)
        THEN setError(setRagResult(s, outcome.body), Null)
        ELSE IF GetThrows(outcome.body)
        THEN setError(s, RagFetchError(TypeErrorMessage))
        ELSE setError(s, RagApiError(outcome)),
        FALSE)

handleSeeMoreClickSettled(request, outcome) ==
    /\ BagIn(request, ragInFlight)
    /\ ragInFlight' = ragInFlight (-) SetToBag({request})
    /\ Render(handleSeeMoreClickState(State, outcome))
    /\ lastOp' = Op("handleSeeMoreClickSettled", AnalyzeBranch(outcome), outcome)
    /\ UNCHANGED <<objectUrls, analyzeInFlight>>

(***************************************************************************)
(* What the page derives from analyzeResult and ragResult when it renders: *)
(* the detail text, the donut series and the bar series.                   *)
(***************************************************************************)
LowerCaseOf ==
    [A |-> "a", B |-> "b", C |-> "c", D |-> "d", E |-> "e", F |-> "f", G |-> "g",
     H |-> "h", I |-> "i", J |-> "j", K |-> "k", L |-> "l", M |-> "m", N |-> "n",
     O |-> "o", P |-> "p", Q |-> "q", R |-> "r", S |-> "s", T |-> "t", U |-> "u",
     V |-> "v", W |-> "w", X |-> "x", Y |-> "y", Z |-> "z"]

\* String.prototype.toLowerCase, symbol by symbol
toLowerCase(s) ==
    Str([i \in 1..Len(s.v) |->
            IF s.v[i] \in DOMAIN LowerCaseOf THEN LowerCaseOf[s.v[i]] ELSE s.v[i]])

\* what a render that throws leaves on the page
RenderError == [t |-> "TypeError"]

healthyColor == Str(<<"#4CAF50">>)
diseaseColor == Str(<<"#F44336">>)

\* variant: the "moderate" case is missing from the switch
getSeverityColor_NoModerate(level) ==
    IF level.t \in {"null", "undefined"} THEN Str(<<"#9E9E9E">>)
    ELSE IF level.t # "str" THEN RenderError
    ELSE CASE toLowerCase(level) = Str(<<"m", "i", "l", "d">>) -> Str(<<"#FFC107">>)
           [] toLowerCase(level) = Str(<<"s", "e", "v", "e", "r", "e">>) -> Str(<<"#F44336">>)
           [] toLowerCase(level) = Str(<<"h", "e", "a", "l", "t", "h", "y">>) -> Str(<<"#4CAF50">>)
           [] OTHER -> Str(<<"#9E9E9E">>)

getSeverityColor(level) ==
    IF level.t \in {"null", "undefined"} THEN Str(<<"#9E9E9E">>)
    ELSE IF level.t # "str" THEN RenderError
    ELSE CASE toLowerCase(level) = Str(<<"m", "i", "l", "d">>) -> Str(<<"#FFC107">>)
           [] toLowerCase(level) = Str(<<"m", "o", "d", "e", "r", "a", "t", "e">>) -> Str(<<"#FF9800">>)
           [] toLowerCase(level) = Str(<<"s", "e", "v", "e", "r", "e">>) -> Str(<<"#F44336">>)
           [] toLowerCase(level) = Str(<<"h", "e", "a", "l", "t", "h", "y">>) -> Str(<<"#4CAF50">>)
           [] OTHER -> Str(<<"#9E9E9E">>)

\* analyzeResult?.disease_segmentation?.severity || 0
severityPercentage(result) ==
    OrElse(OptGet(OptGet(result, "disease_segmentation"), "severity"), Num(0))

\* a - b on numbers
Minus(a, b) == Num(a.v - b.v)

\* the data prop of <Doughnut>
DoughnutData(result) ==
    [labels |-> <<Str(<<"Diseased">>), Str(<<"Healthy">>)>>,
     data |-> <<severityPercentage(result),
                Minus(Num(100), severityPercentage(result))>>,
     backgroundColor |->
        <<getSeverityColor(
              OptGet(OptGet(result, "disease_segmentation"), "classification")),
          healthyColor>>]

\* a number with decimals: units / 10^scale (Num(n) has scale 0)
Decimal(units, scale) == [t |-> "num", v |-> units, scale |-> scale]
Scale(x) == IF "scale" \in DOMAIN x THEN x.scale ELSE 0
Pow10(n) == IF n = 0 THEN 1 ELSE IF n = 1 THEN 10 ELSE IF n = 2 THEN 100
            ELSE IF n = 3 THEN 1000 ELSE IF n = 4 THEN 10000 ELSE 100000

\* v * 100
TimesHundred(x) == [x EXCEPT !.v = x.v * 100]

\* variant: the digits after the second decimal are cut off
toFixed2_Truncates(x) ==
    LET cents == (x.v * 100) \div Pow10(Scale(x))
    IN Str(<<ToString(cents \div 100), ".",
             ToString((cents % 100) \div 10), ToString(cents % 10)>>)

\* Number.prototype.toFixed(2) of a number that is not negative: the nearest
\* multiple of 0.01 (the larger one on a tie), written with two decimals
toFixed2(x) ==
    LET cents == (2 * x.v * 100 + Pow10(Scale(x))) \div (2 * Pow10(Scale(x)))
    IN Str(<<ToString(cents \div 100), ".",
             ToString((cents % 100) \div 10), ToString(cents % 10)>>)

\* Object.keys / Object.values: the entries in insertion order
ObjectKeys(o) == [i \in 1..Len(o.e) |-> o.e[i].k]
ObjectValues(o) == [i \in 1..Len(o.e) |-> o.e[i].v]

\* analyzeResult.disease_classification.probabilities || {}
Probabilities(result) ==
    OrElse(OptGet(OptGet(result, "disease_classification"), "probabilities"), Obj(<<>>))

\* the data prop of <Bar>; analyzeResult.disease_classification is read without ?.
BarData(result) ==
    IF GetThrows(OptGet(result, "disease_classification")) THEN RenderError
    ELSE [labels |-> ObjectKeys(Probabilities(result)),
          data |-> [i \in 1..Len(Probabilities(result).e) |->
                       toFixed2(TimesHundred(ObjectValues(Probabilities(result))[i]))],
          backgroundColor |->
             [i \in 1..Len(Probabilities(result).e) |->
                 IF toLowerCase(ObjectKeys(Probabilities(result))[i]) = Str(<<"h", "e", "a", "l", "t", "h", "y">>)
                 THEN healthyColor ELSE diseaseColor]]

\* variant: answer is probed before message
RagText_AnswerFirst(rag) ==
    OrElse(OrElse(OptGet(rag, "answer"), OptGet(rag, "message")), OptGet(rag, "response"))

\* ragResult?.message || ragResult?.answer || ragResult?.response
RagText(rag) ==
    OrElse(OrElse(OptGet(rag, "message"), OptGet(rag, "answer")), OptGet(rag, "response"))

\* the content of the rag-output block, rendered when ragResult is truthy
RagOutput(rag) ==
    IF ~Truthy(rag) THEN Undefined
    ELSE IF Truthy(RagText(rag)) THEN RagText(rag)
    ELSE Str(<<"No response available">>)

(***************************************************************************)
(* What the rendered page lets the user trigger.                           *)
(***************************************************************************)
\* Preview button: disabled={loading || !file}
PreviewDisabled == loading \/ ~Truthy(file)
\* variant: disabled={!file}
AnalyzeDisabled_IgnoresLoading == ~Truthy(file)
\* Analyze button: disabled={loading || !file}
AnalyzeDisabled == loading \/ ~Truthy(file)
\* the results section, with the See More button, is rendered: {analyzeResult && ...}
SeeMoreRendered == Truthy(analyzeResult)
\* variant: disabled={ragLoading}
SeeMoreDisabled_IgnoresAnalyze == ragLoading
\* See More button: disabled={loading || ragLoading}
SeeMoreDisabled == loading \/ ragLoading

Init ==
    /\ loading = FALSE
    /\ ragLoading = FALSE
    /\ file = Null
    /\ previewUrl = Null
    /\ error = Null
    /\ analyzeResult = Null
    /\ ragResult = Null
    /\ objectUrls = {}
    /\ analyzeInFlight = EmptyBag
    /\ ragInFlight = EmptyBag
    /\ lastOp = Op("mount", "", Null)

\* the drop widget calls onFileSelect
DropFile == \E selectedFile \in Candidates : handleImageFile(selectedFile)

ClickPreview == ~PreviewDisabled /\ handlePreviewClick

ClickAnalyze == ~AnalyzeDisabled /\ handleSendClick

AnalyzeSettles ==
    \E request \in BagToSet(analyzeInFlight), outcome \in AnalyzeOutcomes :
        handleSendClickSettled(request, outcome)

ClickSeeMore == SeeMoreRendered /\ ~SeeMoreDisabled /\ handleSeeMoreClick

RagSettles ==
    \E request \in BagToSet(ragInFlight), outcome \in RagOutcomes :
        handleSeeMoreClickSettled(request, outcome)

\* the session as the user drives it through the rendered controls
Next ==
    \/ DropFile
    \/ ClickPreview
    \/ ClickAnalyze
    \/ AnalyzeSettles
    \/ ClickSeeMore
    \/ RagSettles

Spec == Init /\ [][Next]_vars

\* every issued request eventually settles
FairSpec == Spec /\ WF_vars(AnalyzeSettles) /\ WF_vars(RagSettles)

\* the handlers invoked as operations, whatever the page shows
InvokePreview == handlePreviewClick

InvokeSend == handleSendClick

InvokeSeeMore == handleSeeMoreClick

NextHandlers ==
    \/ DropFile
    \/ InvokePreview
    \/ InvokeSend
    \/ AnalyzeSettles
    \/ InvokeSeeMore
    \/ RagSettles

HandlerSpec == Init /\ [][NextHandlers]_vars

(***************************************************************************)
(* The page with an analysis result on it, for every shape of result and   *)
(* of detail response the endpoints may send: the user asks for details    *)
(* and the detail request settles.                                         *)
(***************************************************************************)
\* a key that is left out when it has no value
OptEntry(key, value) == IF value = Undefined THEN <<>> ELSE <<Entry(key, value)>>

PredictedClasses == {Undefined, Str(<<"R", "u", "s", "t">>), Str(<<>>)}

Severities == {Undefined, Num(0), Num(35), Num(100)}

Classifications ==
    {Undefined, Null, Str(<<>>),
     Str(<<"M", "i", "l", "d">>),
     Str(<<"M", "o", "d", "e", "r", "a", "t", "e">>),
     Str(<<"S", "e", "v", "e", "r", "e">>),
     Str(<<"H", "e", "a", "l", "t", "h", "y">>),
     Str(<<"C", "r", "i", "t", "i", "c", "a", "l">>),
     Str(<<"M", "O", "D", "E", "R", "A", "T", "E">>)}

\* {Healthy: 0.9, Rust: 0.1}
MapHealthyRust ==
    Obj(<<Entry(Str(<<"H", "e", "a", "l", "t", "h", "y">>), Decimal(9, 1)),
          Entry(Str(<<"R", "u", "s", "t">>), Decimal(1, 1))>>)
\* {Rust: 0.12346, healthy: 0.33333, Blight: 0}
MapRustHealthyBlight ==
    Obj(<<Entry(Str(<<"R", "u", "s", "t">>), Decimal(12346, 5)),
          Entry(Str(<<"h", "e", "a", "l", "t", "h", "y">>), Decimal(33333, 5)),
          Entry(Str(<<"B", "l", "i", "g", "h", "t">>), Num(0))>>)
\* {Str(<<"H", "e", "a", "l", "t", "h", "y">>): 1}
MapUpperHealthy == Obj(<<Entry(Str(<<"H", "E", "A", "L", "T", "H", "Y">>), Num(1))>>)

ProbabilityMaps ==
    {Undefined, Obj(<<>>), MapHealthyRust, MapRustHealthyBlight, MapUpperHealthy}

ResultInputs ==
    { Obj(<<Entry("disease_classification",
                  Obj(OptEntry("predicted_class", predicted)
                      \o OptEntry("probabilities", probabilities))),
            Entry("disease_segmentation",
                  Obj(OptEntry("severity", severity)
                      \o OptEntry("classification", classification)))>>) :
        predicted \in PredictedClasses, probabilities \in ProbabilityMaps,
        severity \in Severities, classification \in Classifications }
    \cup {ResultBare}

DetailTexts(text) == {Undefined, Str(<<>>), Str(<<text>>)}

DetailBodies ==
    { Obj(OptEntry("response", response) \o OptEntry("answer", answer)
          \o OptEntry("message", message)) :
        message \in DetailTexts("Rust is a fungal disease"),
        answer \in DetailTexts("Remove infected leaves"),
        response \in DetailTexts("Ask an agronomist") }

DetailOutcomes ==
    { Response(200, body) : body \in DetailBodies }
    \cup { Response(503, BodyOverloaded), Rejection(<<"Failed to fetch">>) }

InitProjection ==
    /\ loading = FALSE
    /\ ragLoading = FALSE
    /\ file = LeafPng
    /\ previewUrl = createObjectURL({})
    /\ error = Null
    /\ analyzeResult \in ResultInputs
    /\ ragResult = Null
    /\ objectUrls = {createObjectURL({})}
    /\ analyzeInFlight = EmptyBag
    /\ ragInFlight = EmptyBag
    /\ lastOp = Op("handleSendClickSettled", "ok", Response(200, analyzeResult))

DetailSettles ==
    \E request \in BagToSet(ragInFlight), outcome \in DetailOutcomes :
        handleSeeMoreClickSettled(request, outcome)

NextProjection ==
    \/ ClickSeeMore
    \/ DetailSettles

ProjectionSpec == InitProjection /\ [][NextProjection]_vars

(***************************************************************************)
(* Vocabulary of the properties.                                           *)
(***************************************************************************)
\* the candidate is a file whose mimeType starts with "image/"
HasImageMimeType(candidate) ==
    /\ candidate # Null
    /\ Len(candidate.type.v) >= 2
    /\ candidate.type.v[1] = "image"
    /\ candidate.type.v[2] = "/"

\* the request completed with a success status and a parsed body
CompletedInSuccess(outcome) ==
    outcome.kind = "response" /\ outcome.status >= 200 /\ outcome.status < 300

\* the request completed with a non-success status, or failed in transport or parsing
CompletedInFailure(outcome) == ~CompletedInSuccess(outcome)

SelectedFile(o) == o.op = "handleImageFile"
AnalyzeCompleted(o) == o.op = "handleSendClickSettled"
DetailCompleted(o) == o.op = "handleSeeMoreClickSettled"

Outstanding(requests) == BagCardinality(requests)

(***************************************************************************)
(* C1: after selectFile with a missing candidate or one whose mimeType     *)
(* does not start with "image/", no image is selected (file and preview    *)
(* reference none), analysisResult and detailResult are none and the       *)
(* notice is an Error notice.                                              *)
(* The source sets the notice and then calls resetState, which clears it.  *)
(***************************************************************************)
C1_InvalidFileShowsError ==
    (SelectedFile(lastOp) /\ ~HasImageMimeType(lastOp.arg)) =>
        /\ file = Null
        /\ previewUrl = Null
        /\ analyzeResult = Null
        /\ ragResult = Null
        /\ IsErrorNotice(error)

(***************************************************************************)
(* C2: selectFile with a file whose mimeType starts with "image/" makes    *)
(* that file the selected image with a fresh preview reference, clears     *)
(* analysisResult and detailResult and sets the Success "image updated"    *)
(* notice.                                                                 *)
(***************************************************************************)
C2_ImageFileSelected ==
    [][(SelectedFile(lastOp') /\ HasImageMimeType(lastOp'.arg)) =>
          /\ file' = lastOp'.arg
          /\ previewUrl' \notin (objectUrls \cup {Null, previewUrl})
          /\ previewUrl' \in objectUrls'
          /\ analyzeResult' = Null
          /\ ragResult' = Null
          /\ error' = MsgImageUpdated
          /\ IsSuccessNotice(error')]_vars

\* a second image replaces the first while results are held for the first
C2_Witness ==
    /\ lastOp = Op("handleImageFile", "image", LeafJpg)
    /\ file = LeafJpg
    /\ Cardinality(objectUrls) >= 2
    /\ ragLoading

(***************************************************************************)
(* C3 as stated: after an analyze request completes in failure,            *)
(* analysisResult is none.                                                 *)
(***************************************************************************)
C3_FailedAnalyzeClearsResult ==
    (AnalyzeCompleted(lastOp) /\ CompletedInFailure(lastOp.arg)) =>
        analyzeResult = Null

(***************************************************************************)
(* C3 as amended: an analyze request that completes in failure leaves      *)
(* analysisResult exactly as it was before the completion.                 *)
(***************************************************************************)
C3_FailedAnalyzeKeepsResult ==
    [][(AnalyzeCompleted(lastOp') /\ CompletedInFailure(lastOp'.arg)) =>
          analyzeResult' = analyzeResult]_vars

\* a re-analysis has failed and the earlier result is still shown
C3_Witness ==
    /\ AnalyzeCompleted(lastOp)
    /\ CompletedInFailure(lastOp.arg)
    /\ analyzeResult = ResultRust
    /\ IsErrorNotice(error)

(***************************************************************************)
(* C4: analysisLoading and detailLoading are never both true: no analyze   *)
(* request starts while a detail request is in flight.                     *)
(* The Analyze button is disabled on loading and on a missing file only.   *)
(***************************************************************************)
C4_NoAnalyzeDuringDetail == ~(loading /\ ragLoading)

(***************************************************************************)
(* C5: at most one analyze request is outstanding, and the Analyze trigger *)
(* is disabled while one is.                                               *)
(***************************************************************************)
C5_OneAnalyzeInFlight ==
    /\ Outstanding(analyzeInFlight) <= 1
    /\ Outstanding(analyzeInFlight) > 0 => (loading /\ AnalyzeDisabled)

\* a request is outstanding and an image is selected, so only the flag disables the trigger
C5_Witness ==
    /\ Outstanding(analyzeInFlight) = 1
    /\ Truthy(file)
    /\ SelectedFile(lastOp)

(***************************************************************************)
(* C6: at most one detail request is outstanding, a detail request never   *)
(* starts while an analyze request or another detail request is            *)
(* outstanding, and the See-More trigger is disabled while either is.      *)
(***************************************************************************)
C6_OneDetailInFlight ==
    /\ [](/\ Outstanding(ragInFlight) <= 1
          /\ (Outstanding(ragInFlight) > 0 \/ Outstanding(analyzeInFlight) > 0)
                => SeeMoreDisabled)
    /\ [][Outstanding(ragInFlight') > Outstanding(ragInFlight) =>
             /\ Outstanding(analyzeInFlight) = 0
             /\ Outstanding(ragInFlight) = 0]_vars

\* the trigger is on the page, with a detail and an analyze request outstanding
C6_Witness ==
    /\ SeeMoreRendered
    /\ Outstanding(ragInFlight) = 1
    /\ Outstanding(analyzeInFlight) = 1

(***************************************************************************)
(* C7: analysisLoading is false right after any analyze completion and     *)
(* detailLoading is false right after any detail completion; when every    *)
(* issued request eventually completes, a loading flag that is true        *)
(* eventually becomes false.                                               *)
(***************************************************************************)
C7_LoadingFlagsClear ==
    /\ [][/\ AnalyzeCompleted(lastOp') => ~loading'
          /\ DetailCompleted(lastOp') => ~ragLoading']_vars
    /\ loading ~> ~loading
    /\ ragLoading ~> ~ragLoading

\* a request has failed in transport and its flag is down
C7_Witness ==
    /\ AnalyzeCompleted(lastOp)
    /\ lastOp.arg.kind = "reject"
    /\ ~loading
    /\ Outstanding(analyzeInFlight) = 0

(***************************************************************************)
(* C8: analyze invoked with no selected image issues no request, does not  *)
(* set analysisLoading, sets an Error notice and leaves the selected       *)
(* image, analysisResult and detailResult unchanged.                       *)
(***************************************************************************)
C8_AnalyzeWithoutImage ==
    [][(lastOp'.op = "handleSendClick" /\ file = Null) =>
          /\ analyzeInFlight' = analyzeInFlight
          /\ ragInFlight' = ragInFlight
          /\ loading' = loading
          /\ IsErrorNotice(error')
          /\ file' = file
          /\ previewUrl' = previewUrl
          /\ analyzeResult' = analyzeResult
          /\ ragResult' = ragResult]_vars

\* analyze was invoked with no image while a result was on the page
C8_Witness ==
    /\ lastOp.op = "handleSendClick"
    /\ file = Null
    /\ error = MsgNoImage
    /\ analyzeResult # Null

(***************************************************************************)
(* C9: requestDetail invoked with no analysisResult issues no request,     *)
(* does not set detailLoading, sets the Error "no analysis data" notice    *)
(* and leaves the selected image and detailResult unchanged.               *)
(***************************************************************************)
C9_DetailWithoutResult ==
    [][(lastOp'.op = "handleSeeMoreClick" /\ analyzeResult = Null) =>
          /\ ragInFlight' = ragInFlight
          /\ analyzeInFlight' = analyzeInFlight
          /\ ragLoading' = ragLoading
          /\ error' = MsgNoAnalysis
          /\ IsErrorNotice(error')
          /\ file' = file
          /\ previewUrl' = previewUrl
          /\ ragResult' = ragResult
          /\ analyzeResult' = Null]_vars

\* requestDetail was invoked with no result while an image and a detail text were held
C9_Witness ==
    /\ lastOp.op = "handleSeeMoreClick"
    /\ analyzeResult = Null
    /\ error = MsgNoAnalysis
    /\ file # Null
    /\ ragResult # Null

(***************************************************************************)
(* C10: after an analyze request completes with a success status and a     *)
(* parsed body, analysisResult is that body, detailResult and the notice   *)
(* are none and analysisLoading is false.                                  *)
(***************************************************************************)
C10_AnalyzeSuccess ==
    (AnalyzeCompleted(lastOp) /\ CompletedInSuccess(lastOp.arg)) =>
        /\ analyzeResult = lastOp.arg.body
        /\ ragResult = Null
        /\ error = Null
        /\ ~loading

\* a re-analysis succeeded while a detail request built from the earlier result was outstanding
C10_Witness ==
    /\ AnalyzeCompleted(lastOp)
    /\ CompletedInSuccess(lastOp.arg)
    /\ analyzeResult = ResultBare
    /\ Outstanding(ragInFlight) = 1

(***************************************************************************)
(* C11: a detail request that completes in failure leaves analysisResult   *)
(* and the selected image exactly as they were; only the notice (set to an *)
(* Error) and detailLoading (set to false) change.                         *)
(***************************************************************************)
C11_FailedDetailFrame ==
    [][(DetailCompleted(lastOp') /\ CompletedInFailure(lastOp'.arg)) =>
          /\ analyzeResult' = analyzeResult
          /\ file' = file
          /\ previewUrl' = previewUrl
          /\ ragResult' = ragResult
          /\ loading' = loading
          /\ objectUrls' = objectUrls
          /\ analyzeInFlight' = analyzeInFlight
          /\ IsErrorNotice(error')
          /\ ~ragLoading']_vars

\* a detail request failed with a status while the result and the image stayed on the page
C11_Witness ==
    /\ DetailCompleted(lastOp)
    /\ lastOp.arg = Response(503, BodyOverloaded)
    /\ analyzeResult = ResultRust
    /\ file = LeafPng
    /\ ~ragLoading

(***************************************************************************)
(* C12: at most one preview reference is live (created and not revoked):   *)
(* the reference of an image that was superseded by a new selection or     *)
(* cleared by an invalid one has been revoked, so every live reference is  *)
(* the one of the selected image.                                          *)
(* The source calls URL.createObjectURL and never URL.revokeObjectURL.     *)
(***************************************************************************)
C12_OnePreviewLive ==
    /\ Cardinality(objectUrls) <= 1
    /\ objectUrls \subseteq {previewUrl}

(***************************************************************************)
(* C13: no error is fatal.  After an analyze request issued for the image  *)
(* that is still selected fails, the image is retained and the Analyze     *)
(* trigger is enabled again; after a detail request built from the result  *)
(* that is still held fails, the See-More trigger is enabled again;        *)
(* selectFile is accepted in every state.                                  *)
(* The second part fails when an analyze request was started while the     *)
(* detail request was in flight (C4): loading keeps See More disabled.     *)
(***************************************************************************)
C13_AnalyzeRetryEnabled ==
    (/\ AnalyzeCompleted(lastOp')
     /\ CompletedInFailure(lastOp'.arg)
     /\ \A request \in BagToSet(analyzeInFlight) : request.value = file) =>
        /\ file' = file
        /\ Truthy(file')
        /\ ~loading'
        /\ ~AnalyzeDisabled'

C13_DetailRetryEnabled ==
    (/\ DetailCompleted(lastOp')
     /\ CompletedInFailure(lastOp'.arg)
     /\ Truthy(analyzeResult)
     /\ \A request \in BagToSet(ragInFlight) : request = Payload(analyzeResult)) =>
        /\ analyzeResult' = analyzeResult
        /\ SeeMoreRendered'
        /\ ~SeeMoreDisabled'

C13_SelectAlwaysAccepted == ENABLED DropFile

C13_NoErrorIsFatal ==
    [][/\ C13_AnalyzeRetryEnabled
       /\ C13_DetailRetryEnabled
       /\ C13_SelectAlwaysAccepted]_vars

(***************************************************************************)
(* C14: after a request completes with a non-success status the notice is  *)
(* an Error whose text contains the status code and the body's error field *)
(* when present and non-empty, otherwise the fallback literal ("Failed to  *)
(* process image" for analyze, "Failed to get RAG output" for detail);     *)
(* after a transport or parse failure the notice is an Error carrying the  *)
(* failure description.                                                    *)
(* A non-success response whose body is JSON null makes data.error throw;  *)
(* the catch branch then shows the TypeError and no status code.           *)
(***************************************************************************)
\* the body's error field when present and non-empty, the fallback otherwise
ErrorFieldOr(body, fallback) ==
    IF /\ body.t = "obj"
       /\ \E i \in 1..Len(body.e) :
            body.e[i].k = "error" /\ body.e[i].v.t = "str" /\ body.e[i].v.v # <<>>
    THEN (body.e[CHOOSE i \in 1..Len(body.e) : body.e[i].k = "error"]).v
    ELSE Str(<<fallback>>)

FailureNoticeFor(outcome, fallback) ==
    /\ IsErrorNotice(error)
    /\ outcome.kind = "response" =>
          /\ Includes(error, Str(<<ToString(outcome.status)>>))
          /\ Includes(error, ErrorFieldOr(outcome.body, fallback))
    /\ outcome.kind = "reject" => Includes(error, outcome.message)

C14_FailureNotice ==
    /\ (AnalyzeCompleted(lastOp) /\ CompletedInFailure(lastOp.arg)) =>
          FailureNoticeFor(lastOp.arg, "Failed to process image")
    /\ (DetailCompleted(lastOp) /\ CompletedInFailure(lastOp.arg)) =>
          FailureNoticeFor(lastOp.arg, "Failed to get RAG output")

(***************************************************************************)
(* Vocabulary of the properties about derived data.                        *)
(***************************************************************************)
\* the field has no value: the key is missing or null
Absent(value) == value = Undefined \/ value = Null

\* the field has no value or the empty string
AbsentOrEmpty(value) == Absent(value) \/ value = Str(<<>>)

PredictedLabelOf(result) ==
    OptGet(OptGet(result, "disease_classification"), "predicted_class")
SeverityOf(result) == OptGet(OptGet(result, "disease_segmentation"), "severity")
SeverityClassOf(result) ==
    OptGet(OptGet(result, "disease_segmentation"), "classification")

\* requestDetail has just issued its request; lastOp.arg is the payload
DetailRequested(o) == o.op = "handleSeeMoreClick" /\ o.branch = "fetch"

(***************************************************************************)
(* C15 as stated: the payload of requestDetail has predicted_class equal   *)
(* to the result's predicted label, or "Unknown" if absent; severity equal *)
(* to the result's severity, or 0 if absent; severity_class equal to the   *)
(* result's classification label, or "Unknown" if absent; each fallback    *)
(* independently of the other fields.                                      *)
(***************************************************************************)
C15_PayloadFields ==
    DetailRequested(lastOp) =>
        /\ OptGet(lastOp.arg, "predicted_class") =
              (IF Absent(PredictedLabelOf(analyzeResult)) THEN Unknown
               ELSE PredictedLabelOf(analyzeResult))
        /\ OptGet(lastOp.arg, "severity") =
              (IF Absent(SeverityOf(analyzeResult)) THEN Num(0)
               ELSE SeverityOf(analyzeResult))
        /\ OptGet(lastOp.arg, "severity_class") =
              (IF Absent(SeverityClassOf(analyzeResult)) THEN Unknown
               ELSE SeverityClassOf(analyzeResult))

(***************************************************************************)
(* C15 as amended: predicted_class is the result's predicted label, or     *)
(* "Unknown" if it is absent or the empty string; severity is the result's *)
(* severity, or 0 if absent; severity_class is the result's classification *)
(* label, or "Unknown" if it is absent or the empty string; each fallback  *)
(* independently of the other fields.                                      *)
(***************************************************************************)
C15_PayloadFieldsOrEmpty ==
    DetailRequested(lastOp) =>
        /\ OptGet(lastOp.arg, "predicted_class") =
              (IF AbsentOrEmpty(PredictedLabelOf(analyzeResult)) THEN Unknown
               ELSE PredictedLabelOf(analyzeResult))
        /\ OptGet(lastOp.arg, "severity") =
              (IF Absent(SeverityOf(analyzeResult)) THEN Num(0)
               ELSE SeverityOf(analyzeResult))
        /\ OptGet(lastOp.arg, "severity_class") =
              (IF AbsentOrEmpty(SeverityClassOf(analyzeResult)) THEN Unknown
               ELSE SeverityClassOf(analyzeResult))
        /\ BagIn(lastOp.arg, ragInFlight)

\* a payload with one fallback between two fields taken from the result
C15_Witness ==
    /\ DetailRequested(lastOp)
    /\ PredictedLabelOf(analyzeResult) = Str(<<"R", "u", "s", "t">>)
    /\ Absent(SeverityOf(analyzeResult))
    /\ SeverityClassOf(analyzeResult) = Str(<<"M", "i", "l", "d">>)
    /\ OptGet(lastOp.arg, "severity") = Num(0)
    /\ OptGet(lastOp.arg, "severity_class") = Str(<<"M", "i", "l", "d">>)

(***************************************************************************)
(* C16 as stated: after a successful detail response the displayed text is *)
(* the value of the first key present among message, answer, response; if  *)
(* none is present the display is "No response available", the notice is   *)
(* none and detailResult is set.                                           *)
(***************************************************************************)
NoResponseAvailable == Str(<<"No response available">>)

\* the value of the first of message, answer, response that is not excluded
FirstOf(body, Excluded(_)) ==
    IF ~Excluded(OptGet(body, "message")) THEN OptGet(body, "message")
    ELSE IF ~Excluded(OptGet(body, "answer")) THEN OptGet(body, "answer")
    ELSE IF ~Excluded(OptGet(body, "response")) THEN OptGet(body, "response")
    ELSE NoResponseAvailable

Amber == Str(<<"#FFC107">>)
Orange == Str(<<"#FF9800">>)
Red == Str(<<"#F44336">>)
Green == Str(<<"#4CAF50">>)
Gray == Str(<<"#9E9E9E">>)

Mild == Str(<<"M", "i", "l", "d">>)
Moderate == Str(<<"M", "o", "d", "e", "r", "a", "t", "e">>)
Severe == Str(<<"S", "e", "v", "e", "r", "e">>)
Healthy == Str(<<"H", "e", "a", "l", "t", "h", "y">>)

\* the colour table, looked up with the equality Same
SeverityColourBy(classification, Same(_, _)) ==
    IF Absent(classification) THEN Gray
    ELSE IF Same(classification, Mild) THEN Amber
    ELSE IF Same(classification, Moderate) THEN Orange
    ELSE IF Same(classification, Severe) THEN Red
    ELSE IF Same(classification, Healthy) THEN Green
    ELSE Gray

Identical(a, b) == a = b
SameIgnoringCase(a, b) == toLowerCase(a) = toLowerCase(b)

DonutSlices(series, Same(_, _)) ==
    /\ Len(series.labels) = 2
    /\ Len(series.data) = 2
    /\ Len(series.backgroundColor) = 2
    /\ series.labels[1] = Str(<<"Diseased">>)
    /\ series.labels[2] = Str(<<"Healthy">>)
    /\ series.data[1] =
          (IF Absent(SeverityOf(analyzeResult)) THEN Num(0) ELSE SeverityOf(analyzeResult))
    /\ series.data[2].v = 100 - series.data[1].v
    /\ series.data[1].v + series.data[2].v = 100
    /\ series.backgroundColor[1] = SeverityColourBy(SeverityClassOf(analyzeResult), Same)
    /\ series.backgroundColor[2] = Green

C17_DonutSeries ==
    Truthy(analyzeResult) => DonutSlices(DoughnutData(analyzeResult), Identical)

(***************************************************************************)
(* C17 as amended: as stated, with the classification compared to Mild,    *)
(* Moderate, Severe and Healthy without regard to letter case.             *)
(***************************************************************************)
C17_DonutSeriesAnyCase ==
    Truthy(analyzeResult) => DonutSlices(DoughnutData(analyzeResult), SameIgnoringCase)

\* severity 35 / Moderate gives Diseased = 35 orange, Healthy = 65 green
C17_Witness ==
    /\ SeverityOf(analyzeResult) = Num(35)
    /\ SeverityClassOf(analyzeResult) = Moderate
    /\ DoughnutData(analyzeResult).data = <<Num(35), Num(65)>>
    /\ DoughnutData(analyzeResult).backgroundColor = <<Orange, Green>>

(***************************************************************************)
(* C18: the bar series has one bar per key of the probability map, in the  *)
(* map's order; label, value and colour i belong to key i; the value is    *)
(* the probability times 100 written with two decimals; the colour is the  *)
(* healthy colour exactly when the label is "healthy" in any letter case,  *)
(* the disease colour otherwise; an absent or empty map gives an empty     *)
(* series and no error.                                                    *)
(***************************************************************************)
\* the largest whole percentage a bar of the inputs shows
MaxPercent == 100

\* text is number * 100 written with two decimals, to the nearest hundredth
IsPercentWithTwoDecimals(text, number) ==
    /\ text.t = "str"
    /\ Len(text.v) = 4
    /\ text.v[2] = "."
    /\ \E whole \in 0..MaxPercent :
          /\ text.v[1] = ToString(whole)
          /\ \E tenths \in 0..9 :
                /\ text.v[3] = ToString(tenths)
                /\ \E hundredths \in 0..9 :
                      /\ text.v[4] = ToString(hundredths)
                      /\ LET shown == (100 * whole + 10 * tenths + hundredths)
                                         * Pow10(Scale(number))
                             exact == 100 * 100 * number.v
                         IN /\ 2 * (shown - exact) <= Pow10(Scale(number))
                            /\ 2 * (exact - shown) <= Pow10(Scale(number))

\* the entries of the result's probability map, none when the map is absent
ProbabilityEntries(result) ==
    LET map == OptGet(OptGet(result, "disease_classification"), "probabilities")
    IN IF Absent(map) THEN <<>> ELSE map.e

BarsOf(series, entries) ==
    /\ series # RenderError
    /\ Len(series.labels) = Len(entries)
    /\ Len(series.data) = Len(entries)
    /\ Len(series.backgroundColor) = Len(entries)
    /\ \A i \in 1..Len(entries) :
          /\ series.labels[i] = entries[i].k
          /\ IsPercentWithTwoDecimals(series.data[i], entries[i].v)
          /\ series.backgroundColor[i] =
                (IF SameIgnoringCase(entries[i].k, Healthy) THEN Green ELSE Red)

C18_WitnessRounded ==
    /\ ProbabilityEntries(analyzeResult) = MapRustHealthyBlight.e
    /\ BarData(analyzeResult).data =
          <<Str(<<"12", ".", "3", "5">>), Str(<<"33", ".", "3", "3">>),
            Str(<<"0", ".", "0", "0">>)>>
    /\ BarData(analyzeResult).backgroundColor = <<Red, Green, Red>>

(***************************************************************************)
(* Vocabulary of the properties about stale responses.                     *)
(***************************************************************************)
\* the request that this step took out of the requests in flight
SettledIn(request, before, after) == CopiesIn(request, after) < CopiesIn(request, before)

(***************************************************************************)
(* C19: whenever analysisResult is not none an image is selected, and a    *)
(* response is applied only if its request was issued for the image that   *)
(* is selected when it arrives.                                            *)
(* handleImageFile is not gated by loading and handleSendClick applies the *)
(* response without looking at the current file.                           *)
(***************************************************************************)
C19_ResultIsForSelectedImage ==
    [][/\ analyzeResult' # Null => file' # Null
       /\ (AnalyzeCompleted(lastOp') /\ CompletedInSuccess(lastOp'.arg)) =>
             \A request \in BagToSet(analyzeInFlight) :
                 SettledIn(request, analyzeInFlight, analyzeInFlight') =>
                     request.value = file']_vars

(***************************************************************************)
(* C20: whenever detailResult is not none analysisResult is not none, and  *)
(* a detail response is applied only if its payload was built from the     *)
(* analysisResult that is held when it arrives.                            *)
(* handleSeeMoreClick applies the response without looking at the current  *)
(* analyzeResult.                                                          *)
(***************************************************************************)
C20_DetailIsForHeldResult ==
    [][/\ ragResult' # Null => analyzeResult' # Null
       /\ (DetailCompleted(lastOp') /\ CompletedInSuccess(lastOp'.arg)) =>
             \A request \in BagToSet(ragInFlight) :
                 SettledIn(request, ragInFlight, ragInFlight') =>
                     request = Payload(analyzeResult')]_vars

====
